---- MODULE Spec2Model ----
(***************************************************************************)
(* Request pipeline of the openCodex proxy: the Express application of     *)
(* index.ts, the router of router.ts (plugin dispatcher and fallback       *)
(* proxy), the plugin registry of plugins/base-plugin.ts and the           *)
(* v1-responses plugin of plugins/v1-responses.ts.                         *)
(*                                                                         *)
(* A URL path is a sequence of its segments: "/v1/responses" is            *)
(* <<"v1", "responses">>.  A response object carries the part of Node's    *)
(* http.ServerResponse the handlers use: the status code, the Content-Type *)
(* header, whether the header block has gone out, what was written and how *)
(* often the response was ended.                                           *)
(***************************************************************************)
EXTENDS Integers, Sequences, FiniteSets, TLC

\* ------------------------------------------------------------------ bounds
MaxReq == 1
MaxPlugins == 2
MaxChunks == 2
MaxItems == 2
MaxBlocks == 2

Reqs == 1..MaxReq

\* ------------------------------------------------------ inputs of the model
Methods == {"POST", "GET"}

Urls ==
  { <<"v1", "responses">>,
    <<"v1", "v1", "responses">>,
    <<"v1", "v1", "responses", "x">>,
    <<"v1", "x", "v1", "responses">>,
    <<"v1", "v1", "other">>,
    <<"v1", "healthz">>,
    <<"responses">> }

Chunks == {"c1", "c2"}
Messages == {"Network error"}
ErrorStatuses == {400, 503}
ErrorTexts == {"Bad request"}
Payloads == {"completion"}

\* The message of Node's ERR_HTTP_HEADERS_SENT error.
HeadersSentMessage == "Cannot set headers after they are sent to the client"

\* ------------------------------------------------------------- the plugins
\* pathPattern = /^\/v1\/responses$/ of the v1-responses plugin: the literal
\* it looks for and its two anchors.
V1PathPattern == [start |-> TRUE, lit |-> <<"v1", "responses">>, end |-> TRUE]

\* The plugin instances of the plugin map.  "v1-responses" is the plugin of
\* plugins/v1-responses.ts; "ext" is a plugin added to the map at its
\* extension point: another implementation of the Plugin interface, built
\* on BasePlugin, whose handle and checkHealth are only known by their
\* signatures.
PluginDefs ==
  [ name \in {"v1-responses", "ext"} |->
      [name |-> name, pathPattern |-> V1PathPattern, method |-> "POST"] ]

pluginMap == DOMAIN PluginDefs

ConfigNames == pluginMap \cup {"unknown"}

PluginConfigs == [name : ConfigNames, enabled : BOOLEAN]

RECURSIVE SeqsUpTo(_, _)
SeqsUpTo(S, n) ==
  IF n = 0 THEN { <<>> }
  ELSE LET shorter == SeqsUpTo(S, n - 1)
       IN shorter \cup { Append(s, x) : s \in shorter, x \in S }

\* ---------------------------------------------------------- pure functions
\* RegExp.prototype.test for a pattern made of a literal and anchors: the
\* literal occurs in the path at a position the anchors allow.
RegexTest(p, path) ==
  \E i \in 0..(Len(path) - Len(p.lit)) :
     /\ SubSeq(path, i + 1, i + Len(p.lit)) = p.lit
     /\ (p.start => i = 0)
     /\ (p.end => i + Len(p.lit) = Len(path))

\* BasePlugin.canHandle
canHandleAnyMethod(plugin, req) ==
  RegexTest(plugin.pathPattern, req.path)

canHandle(plugin, req) ==
  RegexTest(plugin.pathPattern, req.path) /\ req.method = plugin.method

\* PluginRegistry.findHandler: the index of the first registered plugin whose
\* canHandle is true, 0 when there is none (Array.prototype.find).
findHandlerLast(plugins, req) ==
  LET hits == { i \in 1..Len(plugins) : canHandle(PluginDefs[plugins[i]], req) }
  IN IF hits = {} THEN 0 ELSE CHOOSE i \in hits : \A j \in hits : j <= i

findHandler(plugins, req) ==
  LET hits == { i \in 1..Len(plugins) : canHandle(PluginDefs[plugins[i]], req) }
  IN IF hits = {} THEN 0 ELSE CHOOSE i \in hits : \A j \in hits : i <= j

\* The calls of canHandle that find makes: one per plugin up to and including
\* the first hit.
canHandleCalls(plugins, req) ==
  LET h == findHandler(plugins, req)
      n == IF h = 0 THEN Len(plugins) ELSE h
  IN [ i \in 1..n |-> canHandle(PluginDefs[plugins[i]], req) ]

\* app.use('/v1', router): the router sees the request when its URL path
\* starts with the mount path, and sees the path with the mount path removed.
UnderMount(url) == Len(url) >= 1 /\ url[1] = "v1"

MountedPath(url) == Tail(url)

setupRouterNoFilter(cfg) ==
  LET known == SelectSeq(cfg, LAMBDA p : p.name \in pluginMap)
  IN [ i \in 1..Len(known) |-> known[i].name ]

\* config.plugins.filter(p => p.enabled), then the registration loop.
RECURSIVE setupRouter(_)
setupRouter(cfg) ==
  IF cfg = <<>> THEN <<>>
  ELSE LET p == Head(cfg)
           rest == setupRouter(Tail(cfg))
       IN IF p.enabled /\ p.name \in pluginMap THEN <<p.name>> \o rest ELSE rest

\* -------------------------------------------------------- JSON/JS values
\* A value is tagged with its kind.  A number is its numeral, an array a
\* sequence of values, an object the sequence of its properties in insertion
\* order.
Undefined == [t |-> "undefined"]
Null == [t |-> "null"]
Bool(b) == [t |-> "boolean", v |-> b]
Num(n) == [t |-> "number", v |-> n]
Str(s) == [t |-> "string", v |-> s]
Arr(a) == [t |-> "array", v |-> a]
Obj(p) == [t |-> "object", v |-> p]
Prop(k, v) == [k |-> k, v |-> v]

\* The numeral of a length, and the numerals above zero among those the
\* model uses ("-1", "0", "0.7" and the lengths).
Digits == <<"1", "2", "3", "4", "5", "6", "7", "8", "9">>
Numeral(n) == IF n = 0 THEN "0" ELSE Digits[n]
PositiveNumerals == {"0.7"} \cup { Digits[i] : i \in DOMAIN Digits }

\* ToBoolean
Truthy(x) ==
  CASE x.t \in {"undefined", "null"} -> FALSE
    [] x.t = "boolean" -> x.v
    [] x.t = "number" -> x.v # "0"
    [] x.t = "string" -> x.v # ""
    [] OTHER -> TRUE

OrFirst(a, b) == a

\* a || b
Or(a, b) == IF Truthy(a) THEN a ELSE b

\* x.key throws a TypeError for null and undefined.
GetThrows(x) == x.t \in {"undefined", "null"}

TypeErrorMessage(x, key) ==
  "Cannot read properties of " \o x.t \o " (reading '" \o key \o "')"

\* x.key otherwise: the property of an object, the length of an array or a
\* string, undefined for anything else.
Get(x, key) ==
  CASE x.t = "object" ->
         LET hits == { i \in 1..Len(x.v) : x.v[i].k = key }
         IN IF hits = {} THEN Undefined
            ELSE x.v[CHOOSE i \in hits : \A j \in hits : j <= i].v
    [] x.t \in {"array", "string"} /\ key = "length" ->
         Num(Numeral(Len(x.v)))
    [] OTHER -> Undefined

\* o[key] = value
Set(o, key, value) ==
  IF \E i \in 1..Len(o.v) : o.v[i].k = key
  THEN Obj([ i \in 1..Len(o.v) |->
               IF o.v[i].k = key THEN Prop(key, value) ELSE o.v[i] ])
  ELSE Obj(Append(o.v, Prop(key, value)))

\* x > 0
GreaterThanZero(x) == x.t = "number" /\ x.v \in PositiveNumerals

RECURSIVE Join(_, _)
Join(strs, sep) ==
  IF strs = <<>> THEN ""
  ELSE IF Len(strs) = 1 THEN strs[1]
  ELSE strs[1] \o sep \o Join(Tail(strs), sep)

\* JSON.stringify of a value that is not undefined.
RECURSIVE Stringify(_)
Stringify(x) ==
  CASE x.t = "string" -> "\"" \o x.v \o "\""
    [] x.t = "number" -> x.v
    [] x.t = "boolean" -> IF x.v THEN "true" ELSE "false"
    [] x.t = "array" ->
         "[" \o Join([ i \in 1..Len(x.v) |->
                         IF x.v[i].t = "undefined" THEN "null"
                         ELSE Stringify(x.v[i]) ], ",") \o "]"
    [] x.t = "object" ->
         LET kept == SelectSeq(x.v, LAMBDA p : p.v.t # "undefined")
         IN "{" \o Join([ i \in 1..Len(kept) |->
                            "\"" \o kept[i].k \o "\":" \o Stringify(kept[i].v) ],
                        ",") \o "}"
    [] OTHER -> "null"

\* ------------------------------------------ transformation of the request
\* A computation that can throw ends as Value(x) or as Thrown(message).
Value(x) == [threw |-> FALSE, value |-> x]
Thrown(message) == [threw |-> TRUE, message |-> message]

\* content.every(item => item.type && (item.text !== undefined)): "true",
\* "false", or "throw" with the item whose property read throws.
RECURSIVE EveryTyped(_)
EveryTyped(content) ==
  IF content = <<>> THEN [r |-> "true"]
  ELSE LET item == Head(content)
       IN IF GetThrows(item) THEN [r |-> "throw", item |-> item]
          ELSE IF Truthy(Get(item, "type")) /\ Get(item, "text") # Undefined
               THEN EveryTyped(Tail(content))
               ELSE [r |-> "false"]

\* normalizeContent
normalizeContent(content) ==
  IF content.t = "string" THEN Value(content)
  ELSE IF content.t = "array"
  THEN IF \A i \in 1..Len(content.v) : content.v[i].t = "string"
       THEN Value(Str(Join([ i \in 1..Len(content.v) |-> content.v[i].v ], "\\n")))
       ELSE LET e == EveryTyped(content.v)
            IN IF e.r = "throw" THEN Thrown(TypeErrorMessage(e.item, "type"))
               ELSE IF e.r = "true"
               THEN Value(Arr([ i \in 1..Len(content.v) |->
                                  IF Get(content.v[i], "type") = Str("input_text")
                                  THEN Obj(<<Prop("type", Str("text")),
                                             Prop("text", Get(content.v[i], "text"))>>)
                                  ELSE content.v[i] ]))
               ELSE Value(content)
  ELSE Value(Str(Stringify(content)))

pushMessageFront(messages, message) == <<message>> \o messages

\* transformed.messages.push(message)
pushMessage(messages, message) == Append(messages, message)

\* The loop over original.input: the messages pushed after those in
\* messages, or the error of the first item that throws.
RECURSIVE inputMessages(_, _)
inputMessages(items, messages) ==
  IF items = <<>> THEN Value(messages)
  ELSE LET item == Head(items)
       IN IF GetThrows(item) THEN Thrown(TypeErrorMessage(item, "role"))
          ELSE IF Truthy(Get(item, "role"))
                  /\ Truthy(Or(Get(item, "content"), Get(item, "text")))
          THEN LET c == normalizeContent(Or(Get(item, "content"), Get(item, "text")))
               IN IF c.threw THEN c
                  ELSE inputMessages(Tail(items),
                         pushMessage(messages,
                                     Obj(<<Prop("role", Get(item, "role")),
                                           Prop("content", c.value)>>)))
          ELSE inputMessages(Tail(items), messages)

copyIfTruthy(transformed, original, key) ==
  IF Truthy(Get(original, key))
  THEN Set(transformed, key, Get(original, key))
  ELSE transformed

\* The overrides at the end of transformRequest: each of the three fields is
\* copied when it is not undefined.
copyIfDefined(transformed, original, key) ==
  IF Get(original, key) # Undefined
  THEN Set(transformed, key, Get(original, key))
  ELSE transformed

systemMessageAsUser(original) ==
  IF Truthy(Get(original, "instructions"))
  THEN pushMessage(<<>>, Obj(<<Prop("role", Str("user")),
                               Prop("content", Get(original, "instructions"))>>))
  ELSE <<>>

\* The messages after the step that adds the system message.
systemMessage(original) ==
  IF Truthy(Get(original, "instructions"))
  THEN pushMessage(<<>>, Obj(<<Prop("role", Str("system")),
                               Prop("content", Get(original, "instructions"))>>))
  ELSE <<>>

\* transformRequest
transformRequest(original) ==
  LET system == systemMessage(original)
      input == Get(original, "input")
      msgs == IF Truthy(input) /\ input.t = "array"
              THEN inputMessages(input.v, system)
              ELSE Value(system)
  IN IF msgs.threw THEN msgs
     ELSE LET t0 == Obj(<<Prop("model", Get(original, "model")),
                          Prop("messages", Arr(msgs.value)),
                          Prop("temperature", Num("0.7")),
                          Prop("max_tokens", Num("-1")),
                          Prop("stream", Or(Get(original, "stream"), Bool(FALSE)))>>)
              t1 == IF Truthy(Get(original, "tools"))
                       /\ GreaterThanZero(Get(Get(original, "tools"), "length"))
                    THEN Set(t0, "tools", Get(original, "tools"))
                    ELSE t0
              t2 == copyIfDefined(t1, original, "temperature")
              t3 == copyIfDefined(t2, original, "max_tokens")
              t4 == copyIfDefined(t3, original, "parallel_tool_calls")
          IN Value(t4)

\* The request bodies the requests of the model carry.
Bodies ==
  { Obj(<<Prop("model", Str("gpt-4"))>>),
    Obj(<<Prop("model", Str("gpt-4")), Prop("stream", Bool(TRUE))>>),
    Obj(<<Prop("model", Str("gpt-4")), Prop("stream", Bool(FALSE)),
          Prop("input", Arr(<<Obj(<<Prop("role", Str("user")),
                                    Prop("content", Str("Hello!"))>>)>>))>>),
    Obj(<<Prop("model", Str("gpt-4")), Prop("stream", Bool(TRUE)),
          Prop("input", Arr(<<Null>>))>>) }

\* A GET request comes without a body, which the body parser leaves as {}.
BodiesOf(method) == IF method = "GET" THEN { Obj(<<>>) } ELSE Bodies

\* The request bodies the transformation is examined on: every combination
\* of the fields transformRequest reads, each absent or with one of a few
\* values, the input a string or a sequence of up to MaxItems items.
Items ==
  { Obj(<<Prop("role", Str("user")), Prop("content", Str("Hello!"))>>),
    Obj(<<Prop("role", Str("assistant")), Prop("text", Str("Hi"))>>),
    Obj(<<Prop("role", Str("user")), Prop("content", Str("")),
          Prop("text", Str("fallback"))>>),
    Obj(<<Prop("role", Str("user")), Prop("content", Str(""))>>),
    Obj(<<Prop("content", Str("no role"))>>),
    Obj(<<Prop("role", Str("user"))>>),
    Obj(<<Prop("role", Str("user")),
          Prop("content", Arr(<<Obj(<<Prop("type", Str("input_text")),
                                      Prop("text", Str("X"))>>)>>))>>),
    Obj(<<Prop("role", Str("user")), Prop("content", Arr(<<Null>>))>>),
    Null }

Opt(key, values) == { <<>> } \cup { <<Prop(key, v)>> : v \in values }

FieldBodies ==
  { Obj(<<Prop("model", Str("gpt-4"))>> \o a \o b \o c \o d \o e \o f) :
      a \in Opt("instructions", {Str(""), Str("Be brief")}),
      b \in Opt("input", {Str("Hello!")} \cup
                           { Arr(items) : items \in SeqsUpTo(Items, MaxItems) }),
      c \in Opt("stream", {Bool(TRUE), Bool(FALSE)}),
      d \in Opt("temperature", {Num("0"), Num("1")}),
      e \in Opt("max_tokens", {Num("0")}),
      f \in Opt("parallel_tool_calls", {Bool(FALSE), Bool(TRUE)}) }

\* The elements of a content sequence: strings, typed blocks (one of them
\* with a further field), a block whose type is the empty string, a block
\* without text, and null.
Elements ==
  { Str("a"), Str("b"),
    Obj(<<Prop("type", Str("input_text")), Prop("text", Str("X"))>>),
    Obj(<<Prop("type", Str("image")), Prop("text", Str("Y")),
          Prop("url", Str("u"))>>),
    Obj(<<Prop("type", Str("")), Prop("text", Str("Z"))>>),
    Obj(<<Prop("type", Str("input_text"))>>),
    Null }

\* The content values: the sequences of up to MaxBlocks elements, and values
\* that are no sequences.
Contents ==
  { Arr(blocks) : blocks \in SeqsUpTo(Elements, MaxBlocks) }
    \cup { Str("Hi"), Num("5"), Bool(TRUE), Obj(<<Prop("k", Str("v"))>>) }

\* The bodies with one input item of role "user" and one of the contents.
ContentBodies ==
  { Obj(<<Prop("model", Str("gpt-4")),
          Prop("input", Arr(<<Obj(<<Prop("role", Str("user")),
                                    Prop("content", c)>>)>>))>>) :
      c \in Contents }

\* The bodies with tools (an empty and a non-empty sequence, a string) and
\* with keys transformRequest does not read.
ToolBodies ==
  { Obj(<<Prop("model", Str("gpt-4"))>> \o a \o b \o c \o d) :
      a \in Opt("tools", { Arr(<<>>),
                           Arr(<<Obj(<<Prop("type", Str("function")),
                                       Prop("name", Str("test"))>>)>>),
                           Str("none") }),
      b \in Opt("parallel_tool_calls", {Bool(TRUE)}),
      c \in Opt("user", {Str("u1")}),
      d \in Opt("top_p", {Num("1")}) }

TBodies == FieldBodies \cup ContentBodies \cup ToolBodies

\* ------------------------------------------------------- the configuration
\* The environment variables that loadFromEnv reads, each unset (undefined)
\* or set to a string.
EnvVars ==
  {"PROXY_PORT", "OPENAI_UPSTREAM_BASE_URL", "OPENAI_API_KEY_HEADER",
   "OPENAI_API_KEY", "OPENAI_HEALTH_CHECK_PATH", "LOG_LEVEL", "LOG_FORMAT",
   "REQUEST_TIMEOUT", "HEALTH_CHECK_TIMEOUT"}

EnvValues ==
  [ PROXY_PORT |-> "8080",
    OPENAI_UPSTREAM_BASE_URL |-> "http://env:1/v1",
    OPENAI_API_KEY_HEADER |-> "X-Api-Key",
    OPENAI_API_KEY |-> "sk-env",
    OPENAI_HEALTH_CHECK_PATH |-> "/health",
    LOG_LEVEL |-> "debug",
    LOG_FORMAT |-> "json",
    REQUEST_TIMEOUT |-> "1000",
    HEALTH_CHECK_TIMEOUT |-> "100" ]

\* The environments: any of the variables set, the base URL with or without
\* a trailing slash.
Envs ==
  { [ n \in EnvVars |->
        IF n \notin set THEN Undefined
        ELSE IF n = "OPENAI_UPSTREAM_BASE_URL" THEN Str(url)
        ELSE Str(EnvValues[n]) ] :
      set \in SUBSET EnvVars, url \in {"http://env:1/v1", "http://env:1/v1/"} }

NoEnv == [ n \in EnvVars |-> Undefined ]

\* parseInt(s, 10) of a decimal numeral is the number it denotes.
parseInt(s) == Num(s.v)

\* s.replace(/\/$/, ""), on the URLs of the model.
stripSlash(s) ==
  IF s.v = "http://env:1/v1/" THEN Str("http://env:1/v1") ELSE s

\* x?.replace(/\/$/, "")
optStripSlash(s) == IF s = Undefined THEN Undefined ELSE stripSlash(s)

defaultConfig ==
  Obj(<<Prop("port", Num("5678")),
        Prop("upstream",
             Obj(<<Prop("baseURL", Str("http://localhost:1234/v1")),
                   Prop("apiKeyHeader", Str("Authorization")),
                   Prop("apiKeyValue", Str("")),
                   Prop("healthCheckPath", Str("/models"))>>)),
        Prop("plugins", Arr(<<[name |-> "v1-responses", enabled |-> TRUE]>>)),
        Prop("logging",
             Obj(<<Prop("level", Str("info")), Prop("format", Str("pretty"))>>)),
        Prop("timeouts",
             Obj(<<Prop("request", Num("60000")),
                   Prop("healthCheck", Num("5000"))>>))>>)

\* loadFromEnv: every key is there, with undefined for a variable that is
\* unset or empty.
loadFromEnv(env) ==
  Obj(<<Prop("port", IF Truthy(env["PROXY_PORT"])
                     THEN parseInt(env["PROXY_PORT"]) ELSE Undefined),
        Prop("upstream",
             Obj(<<Prop("baseURL",
                        Or(optStripSlash(env["OPENAI_UPSTREAM_BASE_URL"]), Undefined)),
                   Prop("apiKeyHeader", Or(env["OPENAI_API_KEY_HEADER"], Undefined)),
                   Prop("apiKeyValue", Or(env["OPENAI_API_KEY"], Undefined)),
                   Prop("healthCheckPath",
                        Or(env["OPENAI_HEALTH_CHECK_PATH"], Undefined))>>)),
        Prop("logging",
             Obj(<<Prop("level", Or(env["LOG_LEVEL"], Undefined)),
                   Prop("format", Or(env["LOG_FORMAT"], Undefined))>>)),
        Prop("timeouts",
             Obj(<<Prop("request", IF Truthy(env["REQUEST_TIMEOUT"])
                                   THEN parseInt(env["REQUEST_TIMEOUT"])
                                   ELSE Undefined),
                   Prop("healthCheck", IF Truthy(env["HEALTH_CHECK_TIMEOUT"])
                                       THEN parseInt(env["HEALTH_CHECK_TIMEOUT"])
                                       ELSE Undefined)>>))>>)

\* loadFromFile: the parsed config.json, {} when there is no file.
loadFromFile(file) == IF file = Undefined THEN Obj(<<>>) ELSE file

\* {...target, ...source}: every own property of source is set on the copy
\* of target, one whose value is undefined included.
RECURSIVE spreadProps(_, _)
spreadProps(target, props) ==
  IF props = <<>> THEN target
  ELSE spreadProps(Set(target, Head(props).k, Head(props).v), Tail(props))

\* Spreading undefined or null copies nothing.
spread(target, source) ==
  IF source.t = "object" THEN spreadProps(target, source.v) ELSE target

\* {...defaultConfig[key], ...(fileConfig[key] || {}), ...(envConfig[key] || {})}
mergeSection(fileConfig, envConfig, key) ==
  spread(spread(Get(defaultConfig, key), Or(Get(fileConfig, key), Obj(<<>>))),
         Or(Get(envConfig, key), Obj(<<>>)))

\* getConfig
getConfig(env, file) ==
  LET fileConfig == loadFromFile(file)
      envConfig == loadFromEnv(env)
      top == spread(spread(defaultConfig, fileConfig), envConfig)
      c1 == Set(top, "upstream", mergeSection(fileConfig, envConfig, "upstream"))
      c2 == Set(c1, "logging", mergeSection(fileConfig, envConfig, "logging"))
      c3 == Set(c2, "timeouts", mergeSection(fileConfig, envConfig, "timeouts"))
  IN Set(c3, "plugins",
         Or(Or(Get(envConfig, "plugins"), Get(fileConfig, "plugins")),
            Get(defaultConfig, "plugins")))

\* The contents of config.json (undefined: there is no file): settings of
\* every section, some of them, or none, and the plugin entries.
ConfigFiles ==
  { Undefined,
    Obj(<<>>),
    Obj(<<Prop("port", Num("9000"))>>),
    Obj(<<Prop("upstream", Obj(<<Prop("baseURL", Str("http://file:2/v1"))>>)),
          Prop("logging", Obj(<<Prop("level", Str("warn"))>>))>>),
    Obj(<<Prop("port", Num("9000")),
          Prop("upstream",
               Obj(<<Prop("baseURL", Str("http://file:2/v1")),
                     Prop("apiKeyHeader", Str("X-File-Key")),
                     Prop("apiKeyValue", Str("sk-file")),
                     Prop("healthCheckPath", Str("/ping"))>>)),
          Prop("logging",
               Obj(<<Prop("level", Str("warn")), Prop("format", Str("json"))>>)),
          Prop("timeouts",
               Obj(<<Prop("request", Num("2000")),
                     Prop("healthCheck", Num("200"))>>))>>) }

\* A config.json that gives the plugin entries only.
PluginsFile(cfg) == Obj(<<Prop("plugins", Arr(cfg))>>)

\* The plugin entries that are enabled and known to the plugin map.
RegisteredConfigs == { c \in PluginConfigs : c.enabled /\ c.name \in pluginMap }

\* The module config.js after its evaluation: the environment and the file
\* it was resolved from, and the resolved configuration.
Loaded(env, file) == [env |-> env, file |-> file, value |-> getConfig(env, file)]

\* ------------------------------------------------- the response object res
\* A fresh http.ServerResponse: status 200, no header set, nothing written.
\* closed: the caller has disconnected; lateWrites: the writes attempted on
\* the closed connection.
NewRes ==
  [statusCode |-> 200, contentType |-> "none", headersSent |-> FALSE,
   sentStatus |-> 0, body |-> <<>>, endCalls |-> 0,
   closed |-> FALSE, lateWrites |-> 0]

\* res.status(code)
ResStatus(res, code) == [res EXCEPT !.statusCode = code]

\* res.setHeader('Content-Type', value), called before anything is written.
ResSetContentType(res, value) == [res EXCEPT !.contentType = value]

\* res.write(chunk): the first write flushes the header block with the
\* status code set so far, then the chunk goes out.
ResWriteTwice(res, chunk) ==
  [res EXCEPT !.headersSent = TRUE,
              !.sentStatus = IF res.headersSent THEN @ ELSE res.statusCode,
              !.body = Append(Append(@, [k |-> "chunk", v |-> chunk]),
                              [k |-> "chunk", v |-> chunk])]

ResWrite(res, chunk) ==
  [res EXCEPT !.headersSent = TRUE,
              !.sentStatus = IF res.headersSent THEN @ ELSE res.statusCode,
              !.body = Append(@, [k |-> "chunk", v |-> chunk]),
              !.lateWrites = IF res.closed THEN @ + 1 ELSE @]

\* res.end()
ResEnd(res) ==
  [res EXCEPT !.headersSent = TRUE,
              !.sentStatus = IF res.headersSent THEN @ ELSE res.statusCode,
              !.endCalls = @ + 1]

\* res.send(text) and res.json(value) set Content-Type (keeping a type that
\* is already set), so they throw ERR_HTTP_HEADERS_SENT once the header block
\* is out; otherwise they send the header block and the body and end the
\* response.
ResSendThrows(res) == res.headersSent

ResComplete(res, defaultType, item) ==
  [res EXCEPT !.contentType = IF @ = "none" THEN defaultType ELSE @,
              !.headersSent = TRUE,
              !.sentStatus = res.statusCode,
              !.body = Append(@, item),
              !.endCalls = @ + 1]

ResSend(res, text) == ResComplete(res, "text/html", [k |-> "text", v |-> text])

\* res.json({error: message})
ResJsonError(res, message) ==
  ResComplete(res, "application/json", [k |-> "error", v |-> message])

\* res.json({error: {message: message, type: 'proxy_error'}})
ResJsonProxyError(res, message) ==
  ResComplete(res, "application/json", [k |-> "proxy_error", v |-> message])

\* res.json(data)
ResJsonData(res, data) ==
  ResComplete(res, "application/json", [k |-> "data", v |-> data])

\* ------------------------------------------------------- the health check
HealthOutcomes == {"ok", "notok", "netfail"}

\* res.status(200).json({status: 'ok', upstream, plugins: names})
ResJsonOk(res, names) ==
  ResComplete(ResStatus(res, 200), "application/json",
              [k |-> "ok",
               v |-> Stringify(Arr([i \in 1..Len(names) |-> Str(names[i])]))])

\* res.status(503).json({status: 'degraded', upstream, reason})
ResJsonDegraded(res) ==
  ResComplete(ResStatus(res, 503), "application/json",
              [k |-> "degraded", v |-> "Upstream server is not responding"])

healthzRespondAlwaysOk(res, upstreamHealth, names) == ResJsonOk(res, names)

\* The body of the /healthz route once checkUpstreamHealth has resolved.
healthzRespond(res, upstreamHealth, names) ==
  IF upstreamHealth THEN ResJsonOk(res, names) ELSE ResJsonDegraded(res)

\* V1ResponsesPlugin.checkHealth: response.ok, and false when fetch rejects.
v1CheckHealth(outcome) == IF outcome = "ok" THEN "true" ELSE "false"

\* The callback mapped over the handlers: a checkHealth that throws is logged
\* and counts as false.
pluginCheckCaught(check) == IF check = "threw" THEN FALSE ELSE check = "true"

getAllShifted(registry) == IF registry = <<>> THEN registry ELSE Tail(registry)

\* getAll returns the plugins field itself, not a copy.  Its callers
\* (checkUpstreamHealth and the /healthz route) read its length and map over
\* it, which leaves the array, and so the registry, as it was.
getAll(registry) == registry

promiseAllFirstHealthy(checks) ==
  \/ \E j \in 1..Len(checks) : checks[j] = "true"
  \/ \A j \in 1..Len(checks) : checks[j] # "pending"

\* await Promise.all(...): it resolves when every mapped checkHealth has
\* settled (each is wrapped in try/catch, so none makes it reject early).
promiseAll(checks) == \A j \in 1..Len(checks) : checks[j] # "pending"

someHealthyAll(checks) ==
  \A i \in 1..Len(checks) : pluginCheckCaught(checks[i])

\* results.some(result => result === true)
someHealthy(checks) ==
  \E i \in 1..Len(checks) : pluginCheckCaught(checks[i])

basicProbeAlwaysTrue(outcome) == TRUE

\* The zero-handler branch of checkUpstreamHealth: response.ok, false when
\* fetch rejects.
basicProbe(outcome) == outcome = "ok"

\* How many of the handlers send a GET of the health check path on checkHealth.
RECURSIVE healthGets(_)
healthGets(names) ==
  IF names = <<>> THEN 0
  ELSE (IF Head(names) = "v1-responses" THEN 1 ELSE 0) + healthGets(Tail(names))

\* ------------------------------------------------ the v1-responses plugin
\* A handler step ends in one of: the promise of handle resolves to true or
\* to false, it rejects ("threw"), or handle is still waiting ("pending").

\* The catch block of V1ResponsesPlugin.handle: answer 500 and resolve true;
\* when res.status(500).json(...) itself throws, handle rejects.
handleCatch(res, message) ==
  IF ResSendThrows(res)
  THEN [res |-> ResStatus(res, 500), result |-> "threw"]
  ELSE [res |-> ResJsonProxyError(ResStatus(res, 500),
                                  "Error handling request: " \o message),
        result |-> "true"]

\* The catch block of handleNonStreamingRequest.
nonStreamingCatch(res, message) ==
  IF ResSendThrows(res)
  THEN handleCatch(ResStatus(res, 502), HeadersSentMessage)
  ELSE [res |-> ResJsonError(ResStatus(res, 502),
                             "Error forwarding request: " \o message),
        result |-> "true"]

\* The catch block of handleStreamingRequest.
streamingCatchSamePrefix(res, message) ==
  IF ResSendThrows(res)
  THEN handleCatch(ResStatus(res, 502), HeadersSentMessage)
  ELSE [res |-> ResJsonError(ResStatus(res, 502),
                             "Error forwarding request: " \o message),
        result |-> "true"]

streamingCatch(res, message) ==
  IF ResSendThrows(res)
  THEN handleCatch(ResStatus(res, 502), HeadersSentMessage)
  ELSE [res |-> ResJsonError(ResStatus(res, 502),
                             "Error streaming response: " \o message),
        result |-> "true"]

\* res.status(response.status).send(errorText) of both forwarding modes.
relayRejectionAs502(res, status, text) ==
  [res |-> ResSend(ResStatus(res, 502), text), result |-> "true"]

relayRejection(res, status, text) ==
  [res |-> ResSend(ResStatus(res, status), text), result |-> "true"]

\* ------------------------------------------------------------------- state
VARIABLES
  phase,     \* "startup" until setupRouter has run, then "serving"
  plugins,   \* PluginRegistry.plugins: the registered plugins, in order
  pc,        \* where each request is
  req,       \* each request as received: method, URL path, parsed body
  res,       \* each request's response object
  disp,      \* what the dispatcher did for each request
  up,        \* each request's exchange with the upstream
  health,    \* each health request's run of checkUpstreamHealth
  config     \* the module config.js: environment, config.json, resolved value

vars == <<phase, plugins, pc, req, res, disp, up, health, config>>

NoReq == [method |-> "", url |-> <<>>, body |-> Undefined]

\* handler: index of the plugin findHandler returned (0: none); seen: the
\* results of the canHandle calls; invoked: the indices of the plugins whose
\* handle was called; result: how handle settled; nextCalls: calls of next();
\* errorsLogged: 'Plugin error' log entries.
NewDisp ==
  [path |-> <<>>, handler |-> 0, seen |-> <<>>, invoked |-> <<>>,
   result |-> "none", nextCalls |-> 0, errorsLogged |-> 0]

\* calls: the requests sent to the upstream for this request, "chat" for
\* POST <baseURL>/chat/completions and "proxy" for the fallback proxy's
\* forward; sent: the body of the POST; mode: the forwarding mode of handle;
\* answer: what the upstream
\* answered; emitted: the chunks of the upstream's response stream so far;
\* failedAt: the await at which the exchange failed.
NewUp ==
  [calls |-> <<>>, sent |-> Undefined, mode |-> "none", answer |-> "none", status |-> 0,
   text |-> "", message |-> "", emitted |-> <<>>, failedAt |-> "none",
   lateReads |-> 0]

\* probe: the bare GET of the upstream when no plugin is registered
\* ("pending", then "ok", "notok" for a non-success status, "netfail" when
\* fetch rejects); checks: per registered plugin, its checkHealth ("pending",
\* then "true", "false" or "threw"); gets: the GETs of the health check path
\* sent to the upstream; healthy: what checkUpstreamHealth returned.
NewHealth == [probe |-> "none", checks |-> <<>>, gets |-> 0, healthy |-> "none"]

Init ==
  /\ phase = "startup"
  /\ \E cfg \in SeqsUpTo(RegisteredConfigs, MaxPlugins) :
        config = Loaded(NoEnv, PluginsFile(cfg))
  /\ plugins = <<>>
  /\ pc = [r \in Reqs |-> "idle"]
  /\ req = [r \in Reqs |-> NoReq]
  /\ res = [r \in Reqs |-> NewRes]
  /\ disp = [r \in Reqs |-> NewDisp]
  /\ up = [r \in Reqs |-> NewUp]
  /\ health = [r \in Reqs |-> NewHealth]

\* setupRouter registers the enabled plugins of config.plugins that the
\* plugin map knows, before the server starts to listen.
SetupRouter ==
  /\ phase = "startup"
  /\ phase' = "serving"
  /\ plugins' = setupRouter(Get(config.value, "plugins").v)
  /\ UNCHANGED <<pc, req, res, disp, up, health, config>>

\* A request comes in and passes the body parser and the logging middleware.
Arrive(r, method, url, body) ==
  /\ phase = "serving"
  /\ pc[r] = "idle"
  /\ req' = [req EXCEPT ![r] = [method |-> method, url |-> url, body |-> body]]
  /\ pc' = [pc EXCEPT ![r] = "Received"]
  /\ UNCHANGED <<phase, plugins, res, disp, up, health, config>>

\* The end of the plugin handler middleware, once handle has settled: return
\* when it resolved to true; log when it rejected; otherwise call next(),
\* which runs the fallback proxy and so forwards the request to the upstream.
dispatcherSettleNoNext(d, u, result) ==
  [disp |-> [d EXCEPT !.result = result,
                      !.errorsLogged = IF result = "threw" THEN @ + 1 ELSE @],
   up |-> u,
   pc |-> IF result = "true" THEN "Handled" ELSE "Unmatched"]

dispatcherSettleSwallowsError(d, u, result) ==
  IF result = "true"
  THEN [disp |-> [d EXCEPT !.result = result], up |-> u, pc |-> "Handled"]
  ELSE IF result = "threw"
  THEN [disp |-> [d EXCEPT !.result = result, !.errorsLogged = @ + 1],
        up |-> u, pc |-> "Matching"]
  ELSE [disp |-> [d EXCEPT !.result = result, !.nextCalls = @ + 1],
        up |-> [u EXCEPT !.calls = Append(@, "proxy")],
        pc |-> "Unmatched"]

dispatcherSettleReturnsOnFalse(d, u, result) ==
  IF result \in {"true", "false"}
  THEN [disp |-> [d EXCEPT !.result = result], up |-> u, pc |-> "Handled"]
  ELSE [disp |-> [d EXCEPT !.result = result,
                           !.nextCalls = @ + 1,
                           !.errorsLogged = IF result = "threw" THEN @ + 1 ELSE @],
        up |-> [u EXCEPT !.calls = Append(@, "proxy")],
        pc |-> "Unmatched"]

dispatcherSettle(d, u, result) ==
  IF result = "true"
  THEN [disp |-> [d EXCEPT !.result = result], up |-> u, pc |-> "Handled"]
  ELSE [disp |-> [d EXCEPT !.result = result,
                           !.nextCalls = @ + 1,
                           !.errorsLogged = IF result = "threw" THEN @ + 1 ELSE @],
        up |-> [u EXCEPT !.calls = Append(@, "proxy")],
        pc |-> "Unmatched"]

\* The dispatcher's bookkeeping d of request r gets its end: the response is
\* newRes, the exchange with the upstream newUp, and handle settled as result
\* ("none" when no handler was found).
Settle(r, d, newRes, newUp, result) ==
  LET s == dispatcherSettle(d, newUp, result)
  IN /\ res' = [res EXCEPT ![r] = newRes]
     /\ disp' = [disp EXCEPT ![r] = s.disp]
     /\ up' = [up EXCEPT ![r] = s.up]
     /\ pc' = [pc EXCEPT ![r] = s.pc]

\* router.get('/healthz', ...) takes the GET requests for /healthz under the
\* mount path; they do not reach the plugin handler middleware.
IsHealthz(rq) ==
  /\ UnderMount(rq.url)
  /\ rq.method = "GET"
  /\ MountedPath(rq.url) = <<"healthz">>

\* The request runs through the application: outside the mount path it gets
\* the 404 answer; under it the router's plugin handler middleware looks for
\* a handler and calls its handle.  handle of the v1-responses plugin
\* transforms the body and sends it to the upstream in the mode that
\* body.stream selects; the step ends at the await of fetch, or in the catch
\* block of handle when the transformation throws.
Route(r) ==
  /\ pc[r] = "Received"
  /\ ~IsHealthz(req[r])
  /\ IF ~UnderMount(req[r].url)
     THEN /\ res' = [res EXCEPT ![r] = ResJsonError(ResStatus(@, 404), "Not found")]
          /\ pc' = [pc EXCEPT ![r] = "NotFound"]
          /\ UNCHANGED <<disp, up>>
     ELSE LET seenReq == [method |-> req[r].method, path |-> MountedPath(req[r].url)]
              h == findHandler(plugins, seenReq)
              d == [disp[r] EXCEPT !.path = seenReq.path,
                                   !.handler = h,
                                   !.seen = canHandleCalls(plugins, seenReq)]
          IN IF h = 0
             THEN Settle(r, d, res[r], up[r], "none")
             ELSE LET d1 == [d EXCEPT !.invoked = Append(@, h)]
                      t == transformRequest(req[r].body)
                  IN IF plugins[h] # "v1-responses"
                     THEN /\ disp' = [disp EXCEPT ![r] = d1]
                          /\ pc' = [pc EXCEPT ![r] = "extHandle"]
                          /\ UNCHANGED <<res, up>>
                     ELSE IF t.threw
                     THEN LET c == handleCatch(res[r], t.message)
                          IN Settle(r, d1, c.res, up[r], c.result)
                     ELSE /\ disp' = [disp EXCEPT ![r] = d1]
                          /\ up' = [up EXCEPT ![r] =
                                      [@ EXCEPT !.calls = Append(@, "chat"),
                                                !.sent = t.value,
                                                !.mode = IF Truthy(Get(req[r].body, "stream"))
                                                         THEN "streaming"
                                                         ELSE "buffered"]]
                          /\ pc' = [pc EXCEPT ![r] = "awaitFetch"]
                          /\ res' = res
  /\ UNCHANGED <<phase, plugins, req, health, config>>

\* fetch rejects: the catch block of the forwarding mode answers 502.
FetchReject(r, message) ==
  /\ pc[r] = "awaitFetch"
  /\ LET u == [up[r] EXCEPT !.answer = "netfail", !.message = message,
                            !.failedAt = "fetch"]
         c == IF up[r].mode = "streaming"
              THEN streamingCatch(res[r], message)
              ELSE nonStreamingCatch(res[r], message)
     IN Settle(r, disp[r], c.res, u, c.result)
  /\ UNCHANGED <<phase, plugins, req, health, config>>

\* fetch resolves with a non-success status: handle goes on to read the body
\* text.
FetchResolveNotOk(r, status) ==
  /\ pc[r] = "awaitFetch"
  /\ up' = [up EXCEPT ![r] = [@ EXCEPT !.answer = "rejected", !.status = status]]
  /\ pc' = [pc EXCEPT ![r] = "awaitText"]
  /\ UNCHANGED <<phase, plugins, req, res, disp, health, config>>

\* response.text() resolves: status and text are relayed.
TextResolve(r, text) ==
  /\ pc[r] = "awaitText"
  /\ LET u == [up[r] EXCEPT !.text = text]
         c == relayRejection(res[r], up[r].status, text)
     IN Settle(r, disp[r], c.res, u, c.result)
  /\ UNCHANGED <<phase, plugins, req, health, config>>

\* response.text() rejects: the connection broke while the body was read.
TextReject(r, message) ==
  /\ pc[r] = "awaitText"
  /\ LET u == [up[r] EXCEPT !.answer = "netfail", !.message = message,
                            !.failedAt = "text"]
         c == IF up[r].mode = "streaming"
              THEN streamingCatch(res[r], message)
              ELSE nonStreamingCatch(res[r], message)
     IN Settle(r, disp[r], c.res, u, c.result)
  /\ UNCHANGED <<phase, plugins, req, health, config>>

\* fetch resolves with a success status.  Buffered mode goes on to read the
\* body as JSON.  Streaming mode sets the event-stream headers; without a
\* response body it answers 502, otherwise it starts to read the stream.
FetchResolveOk(r, hasBody) ==
  /\ pc[r] = "awaitFetch"
  /\ IF up[r].mode = "buffered"
     THEN /\ hasBody
          /\ up' = [up EXCEPT ![r] = [@ EXCEPT !.answer = "success"]]
          /\ pc' = [pc EXCEPT ![r] = "awaitJson"]
          /\ UNCHANGED <<res, disp>>
     ELSE LET u == [up[r] EXCEPT !.answer = IF hasBody THEN "success" ELSE "nobody"]
              es == ResSetContentType(res[r], "text/event-stream")
          IN IF hasBody
             THEN /\ res' = [res EXCEPT ![r] = es]
                  /\ up' = [up EXCEPT ![r] = u]
                  /\ pc' = [pc EXCEPT ![r] = "streaming"]
                  /\ UNCHANGED disp
             ELSE Settle(r, disp[r],
                         ResJsonError(ResStatus(es, 502),
                                      "No response stream from upstream"),
                         u, "true")
  /\ UNCHANGED <<phase, plugins, req, health, config>>

\* response.json() resolves: the parsed body is sent with res.json.
JsonResolve(r, data) ==
  /\ pc[r] = "awaitJson"
  /\ Settle(r, disp[r], ResJsonData(res[r], data), up[r], "true")
  /\ UNCHANGED <<phase, plugins, req, health, config>>

\* response.json() rejects: the body is no JSON or the connection broke.
JsonReject(r, message) ==
  /\ pc[r] = "awaitJson"
  /\ LET u == [up[r] EXCEPT !.answer = "netfail", !.message = message,
                            !.failedAt = "json"]
         c == nonStreamingCatch(res[r], message)
     IN Settle(r, disp[r], c.res, u, c.result)
  /\ UNCHANGED <<phase, plugins, req, health, config>>

\* The caller disconnects while the handler relays the stream.  Nothing in
\* handleStreamingRequest listens for it; a later res.write does not throw.
Disconnect(r) ==
  /\ pc[r] = "streaming"
  /\ ~res[r].closed
  /\ res' = [res EXCEPT ![r].closed = TRUE]
  /\ UNCHANGED <<phase, plugins, pc, req, disp, up, health, config>>

\* The upstream stream yields a chunk: the loop writes it.
StreamChunk(r, chunk) ==
  /\ pc[r] = "streaming"
  /\ Len(up[r].emitted) < MaxChunks
  /\ up' = [up EXCEPT ![r] = [@ EXCEPT !.emitted = Append(@, chunk),
                                      !.lateReads = IF res[r].closed THEN @ + 1 ELSE @]]
  /\ res' = [res EXCEPT ![r] = ResWrite(@, chunk)]
  /\ UNCHANGED <<phase, plugins, pc, req, disp, health, config>>

\* The upstream stream ends: the loop is left and the response ended.
StreamEnd(r) ==
  /\ pc[r] = "streaming"
  /\ Settle(r, disp[r], ResEnd(res[r]), [up[r] EXCEPT !.answer = "streamed"], "true")
  /\ UNCHANGED <<phase, plugins, req, health, config>>

\* The upstream stream fails: the iteration throws inside the try block.
StreamError(r, message) ==
  /\ pc[r] = "streaming"
  /\ LET u == [up[r] EXCEPT !.answer = "netfail", !.message = message,
                            !.failedAt = "stream"]
         c == streamingCatch(res[r], message)
     IN Settle(r, disp[r], c.res, u, c.result)
  /\ UNCHANGED <<phase, plugins, req, health, config>>

\* handle of a plugin known by the Plugin interface only settles: it
\* resolves to true after answering, resolves to false, or rejects.
ExtSettle(r, result) ==
  /\ pc[r] = "extHandle"
  /\ Settle(r, disp[r],
            IF result = "true" THEN ResJsonData(res[r], "ext") ELSE res[r],
            up[r], result)
  /\ UNCHANGED <<phase, plugins, req, health, config>>

\* ------------------------------------------------------- GET /healthz
\* The /healthz route calls checkUpstreamHealth, which runs up to its first
\* await: the bare probe with an empty registry, else checkHealth of every
\* registered handler, started in registry order.
HealthRoute(r) ==
  /\ pc[r] = "Received"
  /\ IsHealthz(req[r])
  /\ IF plugins = <<>>
     THEN /\ health' = [health EXCEPT ![r] =
                          [NewHealth EXCEPT !.probe = "pending", !.gets = 1]]
          /\ pc' = [pc EXCEPT ![r] = "awaitProbe"]
     ELSE /\ health' = [health EXCEPT ![r] =
                          [NewHealth EXCEPT
                             !.checks = [i \in 1..Len(plugins) |-> "pending"],
                             !.gets = healthGets(plugins)]]
          /\ pc' = [pc EXCEPT ![r] = "awaitHealth"]
  /\ plugins' = getAll(plugins)
  /\ UNCHANGED <<phase, req, res, disp, up, config>>

\* The bare probe settles; the route answers.
ProbeSettle(r, outcome) ==
  /\ pc[r] = "awaitProbe"
  /\ LET healthy == basicProbe(outcome)
     IN /\ health' = [health EXCEPT ![r].probe = outcome,
                                    ![r].healthy = IF healthy THEN "true" ELSE "false"]
        /\ res' = [res EXCEPT ![r] = healthzRespond(@, healthy, plugins)]
  /\ pc' = [pc EXCEPT ![r] = "HealthDone"]
  /\ UNCHANGED <<phase, plugins, req, disp, up, config>>

\* One handler's checkHealth settles; when it was the last one pending,
\* Promise.all resolves, checkUpstreamHealth returns and the route answers.
CheckSettle(r, i, check) ==
  /\ pc[r] = "awaitHealth"
  /\ i \in 1..Len(health[r].checks)
  /\ health[r].checks[i] = "pending"
  /\ LET checks == [health[r].checks EXCEPT ![i] = check]
         done == promiseAll(checks)
         healthy == someHealthy(checks)
     IN IF done
        THEN /\ health' = [health EXCEPT ![r].checks = checks,
                                         ![r].healthy = IF healthy THEN "true" ELSE "false"]
             /\ res' = [res EXCEPT ![r] = healthzRespond(@, healthy, plugins)]
             /\ pc' = [pc EXCEPT ![r] = "HealthDone"]
        ELSE /\ health' = [health EXCEPT ![r].checks = checks]
             /\ UNCHANGED <<res, pc>>
  /\ UNCHANGED <<phase, plugins, req, disp, up, config>>

\* checkHealth of the v1-responses plugin: its GET of the upstream settles.
V1HealthSettle(r, i, outcome) ==
  /\ i \in 1..Len(plugins)
  /\ plugins[i] = "v1-responses"
  /\ CheckSettle(r, i, v1CheckHealth(outcome))

\* checkHealth of another handler resolves to true or false, or throws.
ExtHealthSettle(r, i, check) ==
  /\ i \in 1..Len(plugins)
  /\ plugins[i] # "v1-responses"
  /\ CheckSettle(r, i, check)

Next ==
  \/ SetupRouter
  \/ \E r \in Reqs, m \in Methods, u \in Urls :
        \E b \in BodiesOf(m) : Arrive(r, m, u, b)
  \/ \E r \in Reqs : Route(r)
  \/ \E r \in Reqs, m \in Messages : FetchReject(r, m)
  \/ \E r \in Reqs, st \in ErrorStatuses : FetchResolveNotOk(r, st)
  \/ \E r \in Reqs, t \in ErrorTexts : TextResolve(r, t)
  \/ \E r \in Reqs, m \in Messages : TextReject(r, m)
  \/ \E r \in Reqs, b \in BOOLEAN : FetchResolveOk(r, b)
  \/ \E r \in Reqs, d \in Payloads : JsonResolve(r, d)
  \/ \E r \in Reqs, m \in Messages : JsonReject(r, m)
  \/ \E r \in Reqs : Disconnect(r)
  \/ \E r \in Reqs, c \in Chunks : StreamChunk(r, c)
  \/ \E r \in Reqs : StreamEnd(r)
  \/ \E r \in Reqs, m \in Messages : StreamError(r, m)
  \/ \E r \in Reqs, x \in {"true", "false", "threw"} : ExtSettle(r, x)
  \/ \E r \in Reqs : HealthRoute(r)
  \/ \E r \in Reqs, o \in HealthOutcomes : ProbeSettle(r, o)
  \/ \E r \in Reqs, i \in 1..MaxPlugins, o \in HealthOutcomes : V1HealthSettle(r, i, o)
  \/ \E r \in Reqs, i \in 1..MaxPlugins, x \in {"true", "false", "threw"} :
        ExtHealthSettle(r, i, x)

Spec == Init /\ [][Next]_vars

\* ------------------------------------------------------------- scheduling
\* The steps that move request r on: the middleware runs once the request
\* has come in, and every call to the upstream (fetch, the reading of a
\* body, the stream) and every handle of another plugin settles in the end.
\* A chunk of the stream and a disconnect of the caller are not among them:
\* neither has to happen.
Progress(r) ==
  \/ Route(r)
  \/ \E m \in Messages : FetchReject(r, m)
  \/ \E st \in ErrorStatuses : FetchResolveNotOk(r, st)
  \/ \E t \in ErrorTexts : TextResolve(r, t)
  \/ \E m \in Messages : TextReject(r, m)
  \/ \E b \in BOOLEAN : FetchResolveOk(r, b)
  \/ \E d \in Payloads : JsonResolve(r, d)
  \/ \E m \in Messages : JsonReject(r, m)
  \/ StreamEnd(r)
  \/ \E m \in Messages : StreamError(r, m)
  \/ \E x \in {"true", "false", "threw"} : ExtSettle(r, x)

\* The program under the assumption that every pending step of a request is
\* taken in the end (the event loop runs every ready callback, and every
\* upstream call resolves, rejects or ends its stream).
\* The runs the termination is examined on: no plugin, the v1-responses
\* plugin alone or behind another plugin, requests for the plugin's path and
\* for another path under the mount, a stream of equal chunks.  Health
\* requests do not pass through the dispatcher and are left out.
LRegistries ==
  { <<>>,
    <<[name |-> "v1-responses", enabled |-> TRUE]>>,
    <<[name |-> "ext", enabled |-> TRUE], [name |-> "v1-responses", enabled |-> TRUE]>> }

LUrls == { <<"v1", "v1", "responses">>, <<"v1", "v1", "other">> }

InitL ==
  /\ phase = "startup"
  /\ \E cfg \in LRegistries : config = Loaded(NoEnv, PluginsFile(cfg))
  /\ plugins = <<>>
  /\ pc = [r \in Reqs |-> "idle"]
  /\ req = [r \in Reqs |-> NoReq]
  /\ res = [r \in Reqs |-> NewRes]
  /\ disp = [r \in Reqs |-> NewDisp]
  /\ up = [r \in Reqs |-> NewUp]
  /\ health = [r \in Reqs |-> NewHealth]

NextL ==
  \/ SetupRouter
  \/ \E r \in Reqs, m \in Methods, u \in LUrls :
        \E b \in BodiesOf(m) : Arrive(r, m, u, b)
  \/ \E r \in Reqs : Progress(r)
  \/ \E r \in Reqs : Disconnect(r)
  \/ \E r \in Reqs : StreamChunk(r, "c1")

SpecL == InitL /\ [][NextL]_vars /\ \A r \in Reqs : WF_vars(Progress(r))

\* ---------------------------------------- the transformation on its own
\* The v1-responses plugin is registered and one request for it has come in
\* with any of the bodies of TBodies; the only step is the call of handle up
\* to its first await.
InitT ==
  /\ phase = "serving"
  /\ config = Loaded(NoEnv, Undefined)
  /\ plugins = <<"v1-responses">>
  /\ \E r0 \in Reqs, b \in TBodies :
        /\ pc = [r \in Reqs |-> IF r = r0 THEN "Received" ELSE "idle"]
        /\ req = [r \in Reqs |->
                    IF r = r0
                    THEN [method |-> "POST", url |-> <<"v1", "v1", "responses">>,
                          body |-> b]
                    ELSE NoReq]
  /\ res = [r \in Reqs |-> NewRes]
  /\ disp = [r \in Reqs |-> NewDisp]
  /\ up = [r \in Reqs |-> NewUp]
  /\ health = [r \in Reqs |-> NewHealth]

NextT == \E r \in Reqs : Route(r)

SpecT == InitT /\ [][NextT]_vars

\* ------------------------------------------------- startup and routing
\* The server starts with any plugin entries in config.json (enabled or
\* disabled, known to the plugin map or not) or without the file; requests
\* come in, are routed up to the first await of their handler, and a health
\* request with an empty registry gets its probe answered.
InitR ==
  /\ phase = "startup"
  /\ \E f \in {Undefined} \cup
               { PluginsFile(cfg) : cfg \in SeqsUpTo(PluginConfigs, MaxPlugins) } :
        config = Loaded(NoEnv, f)
  /\ plugins = <<>>
  /\ pc = [r \in Reqs |-> "idle"]
  /\ req = [r \in Reqs |-> NoReq]
  /\ res = [r \in Reqs |-> NewRes]
  /\ disp = [r \in Reqs |-> NewDisp]
  /\ up = [r \in Reqs |-> NewUp]
  /\ health = [r \in Reqs |-> NewHealth]

RUrls == { <<"v1", "v1", "responses">>, <<"v1", "v1", "other">>, <<"v1", "healthz">> }

NextR ==
  \/ SetupRouter
  \/ \E r \in Reqs, m \in Methods, u \in RUrls : Arrive(r, m, u, Obj(<<>>))
  \/ \E r \in Reqs : Route(r)
  \/ \E r \in Reqs : HealthRoute(r)
  \/ \E r \in Reqs, o \in HealthOutcomes : ProbeSettle(r, o)

SpecR == InitR /\ [][NextR]_vars

\* ------------------------------------------- the evaluation of config.js
\* Before config.js is evaluated: any environment of Envs, any config.json
\* of ConfigFiles; the only step is the call of getConfig.
InitC ==
  /\ phase = "import"
  /\ \E e \in Envs, f \in ConfigFiles :
        config = [env |-> e, file |-> f, value |-> Undefined]
  /\ plugins = <<>>
  /\ pc = [r \in Reqs |-> "idle"]
  /\ req = [r \in Reqs |-> NoReq]
  /\ res = [r \in Reqs |-> NewRes]
  /\ disp = [r \in Reqs |-> NewDisp]
  /\ up = [r \in Reqs |-> NewUp]
  /\ health = [r \in Reqs |-> NewHealth]

\* export default getConfig()
LoadConfig ==
  /\ phase = "import"
  /\ phase' = "startup"
  /\ config' = Loaded(config.env, config.file)
  /\ UNCHANGED <<plugins, pc, req, res, disp, up, health>>

NextC == LoadConfig

SpecC == InitC /\ [][NextC]_vars

\* ------------------------------------------------------------- properties
\* The request has been through the router's plugin handler middleware.
Dispatched(r) ==
  pc[r] \notin {"idle", "Received", "NotFound", "awaitProbe", "awaitHealth", "HealthDone"}

\* The request the plugin handler middleware saw.
SeenReq(r) == [method |-> req[r].method, path |-> disp[r].path]

\* The plugin whose handle was called for the request.
InvokedPlugin(r) == plugins[disp[r].invoked[1]]

ClaimedByV1(r) == disp[r].invoked # <<>> /\ InvokedPlugin(r) = "v1-responses"

Settled(r) == pc[r] \in {"Handled", "Unmatched"}

\* C1: with the v1-responses plugin registered, a POST request for
\* /v1/responses is claimed by that plugin, so that its first upstream
\* request is the POST to /chat/completions, and it is not handed to the
\* fallback proxy by the dispatcher.
C1_PostV1ResponsesClaimed ==
  \A r \in Reqs :
     ( /\ plugins = <<"v1-responses">>
       /\ Dispatched(r)
       /\ req[r].method = "POST"
       /\ req[r].url = <<"v1", "responses">> )
     => /\ disp[r].handler = 1
        /\ disp[r].invoked = <<1>>
        /\ up[r].calls # <<>>
        /\ Head(up[r].calls) = "chat"

\* C2: for every dispatched request and every registered plugin, canHandle
\* is true exactly when the request's method is the plugin's method and the
\* request's path is the whole path the plugin's pattern names; the canHandle
\* calls the dispatcher made returned just that.
C2_CanHandleExact ==
  \A r \in Reqs :
     Dispatched(r) =>
        /\ \A i \in 1..Len(plugins) :
              canHandle(PluginDefs[plugins[i]], SeenReq(r)) <=>
                 /\ req[r].method = PluginDefs[plugins[i]].method
                 /\ disp[r].path = PluginDefs[plugins[i]].pathPattern.lit
        /\ \A i \in DOMAIN disp[r].seen :
              disp[r].seen[i] <=>
                 /\ req[r].method = PluginDefs[plugins[i]].method
                 /\ disp[r].path = PluginDefs[plugins[i]].pathPattern.lit

\* A canHandle call that returned true.
C2_Witness ==
  \E r \in Reqs :
     /\ Dispatched(r)
     /\ \E i \in DOMAIN disp[r].seen : disp[r].seen[i]

\* C3: the plugins whose handle the dispatcher called for a request are at
\* most the first registered plugin that matches the request, and that one is
\* called when a plugin matches; this stays so however handle settles.
C3_FirstMatchOnly ==
  \A r \in Reqs :
     Dispatched(r) =>
        LET hits == { i \in 1..Len(plugins) :
                        /\ req[r].method = PluginDefs[plugins[i]].method
                        /\ disp[r].path = PluginDefs[plugins[i]].pathPattern.lit }
        IN IF hits = {}
           THEN disp[r].invoked = <<>>
           ELSE /\ Len(disp[r].invoked) = 1
                /\ disp[r].invoked[1] \in hits
                /\ \A j \in hits : disp[r].invoked[1] <= j

\* Two registered plugins match and the first one's handle resolved to false.
C3_Witness ==
  \E r \in Reqs :
     /\ Len(plugins) = 2
     /\ plugins[1] # plugins[2]
     /\ \A i \in 1..2 : canHandle(PluginDefs[plugins[i]], SeenReq(r))
     /\ disp[r].invoked = <<1>>
     /\ disp[r].result = "false"

\* C4: when handle rejected, the dispatcher logged it once, called next()
\* once and wrote nothing to the response: the response holds only what the
\* handler wrote before it failed.
C4_RejectFallsThrough ==
  \A r \in Reqs :
     disp[r].result = "threw" =>
        /\ disp[r].errorsLogged = 1
        /\ disp[r].nextCalls = 1
        /\ pc[r] = "Unmatched"
        /\ \A i \in DOMAIN res[r].body : res[r].body[i].k = "chunk"

\* handle of the v1-responses plugin rejected.
C4_Witness ==
  \E r \in Reqs : ClaimedByV1(r) /\ disp[r].result = "threw"

\* C5: a request no registered plugin matches has no handle called and is
\* handed to the fallback proxy in the dispatching step itself; a request
\* whose handler resolved to false is handed to the fallback proxy as well.
C5_NoMatchOrDeclineFallsThrough ==
  \A r \in Reqs :
     /\ (Dispatched(r) /\ disp[r].handler = 0) =>
           /\ disp[r].invoked = <<>>
           /\ disp[r].nextCalls = 1
           /\ pc[r] = "Unmatched"
           /\ up[r].calls = <<"proxy">>
     /\ disp[r].result = "false" =>
           /\ disp[r].nextCalls = 1
           /\ pc[r] = "Unmatched"
           /\ up[r].calls = <<"proxy">>

\* Plugins are registered and none of them matches the request.
C5_Witness ==
  \E r \in Reqs :
     /\ plugins # <<>>
     /\ Dispatched(r)
     /\ disp[r].handler = 0
     /\ pc[r] = "Unmatched"

\* C6: once a non-success answer of the upstream (status and body text) has
\* been relayed, in either mode, the caller has got that status and that
\* text as the whole body, and nothing else was written.
C6_RejectionRelayedVerbatim ==
  \A r \in Reqs :
     (ClaimedByV1(r) /\ up[r].answer = "rejected" /\ Settled(r)) =>
        /\ res[r].sentStatus = up[r].status
        /\ res[r].body = << [k |-> "text", v |-> up[r].text] >>
        /\ res[r].endCalls = 1

\* A non-success answer relayed in streaming mode.
C6_Witness ==
  \E r \in Reqs :
     /\ ClaimedByV1(r)
     /\ up[r].mode = "streaming"
     /\ up[r].answer = "rejected"
     /\ up[r].status = 400
     /\ Settled(r)

\* C7: when fetch rejected with message m, the caller has got status 502 and
\* the JSON body {error: prefix + m}, the prefix being "Error forwarding
\* request: " in buffered mode and "Error streaming response: " in streaming
\* mode.
C7_FetchRejectIs502 ==
  \A r \in Reqs :
     (ClaimedByV1(r) /\ up[r].failedAt = "fetch") =>
        /\ res[r].sentStatus = 502
        /\ res[r].endCalls = 1
        /\ res[r].body =
             << [k |-> "error",
                 v |-> (IF up[r].mode = "streaming"
                        THEN "Error streaming response: "
                        ELSE "Error forwarding request: ") \o up[r].message] >>

\* fetch rejected in streaming mode.
C7_Witness ==
  \E r \in Reqs :
     /\ ClaimedByV1(r)
     /\ up[r].mode = "streaming"
     /\ up[r].failedAt = "fetch"
     /\ pc[r] = "Handled"

\* C8: when the upstream stream failed with message m after the event-stream
\* headers were set, whatever number of chunks had been written, the caller's
\* response is completed with status 502 and the JSON body
\* {error: "Error streaming response: " + m}, and handle resolved to true.
C8_MidStreamFailureIs502 ==
  \A r \in Reqs :
     (ClaimedByV1(r) /\ up[r].failedAt = "stream") =>
        /\ res[r].sentStatus = 502
        /\ res[r].endCalls = 1
        /\ res[r].body # <<>>
        /\ res[r].body[Len(res[r].body)] =
             [k |-> "error", v |-> "Error streaming response: " \o up[r].message]
        /\ disp[r].result = "true"

\* C9: while and after a successful upstream response is streamed, the
\* caller's response has Content-Type text/event-stream and its body is the
\* chunks emitted so far, each once and in order; the response is not ended
\* while the stream runs and is ended once when the stream has ended.
C9_ChunksRelayedInOrder ==
  \A r \in Reqs :
     (ClaimedByV1(r) /\ up[r].mode = "streaming"
        /\ up[r].answer \in {"success", "streamed"}) =>
        /\ res[r].contentType = "text/event-stream"
        /\ res[r].body = [i \in 1..Len(up[r].emitted) |->
                             [k |-> "chunk", v |-> up[r].emitted[i]]]
        /\ res[r].endCalls = (IF up[r].answer = "streamed" THEN 1 ELSE 0)
        /\ (up[r].answer = "streamed" <=> pc[r] = "Handled")

\* A stream of two different chunks relayed to its end.
C9_Witness ==
  \E r \in Reqs :
     /\ ClaimedByV1(r)
     /\ up[r].answer = "streamed"
     /\ up[r].emitted = <<"c2", "c1">>
     /\ res[r].endCalls = 1

\* C10: a request claimed by the v1-responses plugin has exactly one request
\* sent to the upstream on its behalf, the POST to /chat/completions, at
\* every point from the call of handle on and however the exchange ends.
C10_OneUpstreamCall ==
  \A r \in Reqs :
     ClaimedByV1(r) => up[r].calls = <<"chat">>

\* C11: once handle of the v1-responses plugin has settled, whatever the
\* upstream did (buffered or streamed success, a non-success status, a
\* transport failure), it resolved to true: it neither resolved to false nor
\* rejected.
C11_HandleResolvesTrue ==
  \A r \in Reqs :
     (ClaimedByV1(r) /\ Settled(r)) => disp[r].result = "true"

\* ---------------------------------------------------------- health check
HealthAnswered(r) == pc[r] = "HealthDone"

HealthRequest(r) == pc[r] \in {"awaitProbe", "awaitHealth", "HealthDone"}

\* C12: with one or more registered handlers, checkUpstreamHealth returns,
\* and returns true exactly when at least one handler's checkHealth resolved
\* to true; a checkHealth that throws is one unhealthy handler, it neither
\* makes the aggregate throw nor forces it to false.
C12_AnyHealthyQuorum ==
  \A r \in Reqs :
     (HealthAnswered(r) /\ plugins # <<>>) =>
        /\ health[r].healthy \in {"true", "false"}
        /\ health[r].healthy = "true" <=>
             \E i \in 1..Len(health[r].checks) : health[r].checks[i] = "true"

\* One handler reported true, another threw, and the aggregate is true.
C12_Witness ==
  \E r \in Reqs :
     /\ HealthAnswered(r)
     /\ \E i, j \in 1..Len(health[r].checks) :
           health[r].checks[i] = "true" /\ health[r].checks[j] = "threw"
     /\ health[r].healthy = "true"

\* C13: with zero registered handlers, checkUpstreamHealth sends exactly one
\* GET of the health check path and nothing else to the upstream, and returns
\* true exactly when that call completed with a success status; a non-success
\* status or a rejected call gives false, not an exception.
C13_BareProbe ==
  \A r \in Reqs :
     (HealthRequest(r) /\ plugins = <<>>) =>
        /\ health[r].gets = 1
        /\ up[r].calls = <<>>
        /\ HealthAnswered(r) =>
             /\ health[r].healthy \in {"true", "false"}
             /\ health[r].healthy = "true" <=> health[r].probe = "ok"

\* The bare probe was rejected and the health check returned false.
C13_Witness ==
  \E r \in Reqs :
     /\ HealthAnswered(r)
     /\ plugins = <<>>
     /\ health[r].probe = "netfail"
     /\ health[r].healthy = "false"

\* C14: a health request is answered once: 200 with status "ok" and the names
\* of the registered handlers exactly when checkUpstreamHealth returned true,
\* 503 with status "degraded" exactly when it returned false, and 500 only
\* when checkUpstreamHealth itself failed; nothing is sent before that.
C14_HealthzResponse ==
  \A r \in Reqs :
     /\ (HealthRequest(r) /\ ~HealthAnswered(r)) => res[r] = NewRes
     /\ HealthAnswered(r) =>
          /\ res[r].endCalls = 1
          /\ Len(res[r].body) = 1
          /\ health[r].healthy = "true" <=>
               /\ res[r].sentStatus = 200
               /\ res[r].body[1] =
                    [k |-> "ok",
                     v |-> Stringify(Arr([i \in 1..Len(plugins) |-> Str(plugins[i])]))]
          /\ health[r].healthy = "false" <=>
               /\ res[r].sentStatus = 503
               /\ res[r].body[1].k = "degraded"
          /\ res[r].sentStatus = 500 => health[r].healthy = "none"

\* Two handlers are registered, none is healthy, and the answer is 503.
C14_Witness ==
  \E r \in Reqs :
     /\ HealthAnswered(r)
     /\ Len(plugins) = 2
     /\ res[r].sentStatus = 503
     /\ res[r].body[1].k = "degraded"

\* ------------------------------------------------------- transformation
\* transformRequest returned for request r and its result went upstream.
Forwarded(r) == ClaimedByV1(r) /\ up[r].sent # Undefined

OutboundMessages(r) == Get(up[r].sent, "messages").v

\* The items of body.input when it is a sequence.
InputItems(body) ==
  IF Get(body, "input").t = "array" THEN Get(body, "input").v ELSE <<>>

\* The system message the instructions of the body ask for.
SystemOf(body) ==
  Obj(<<Prop("role", Str("system")), Prop("content", Get(body, "instructions"))>>)

\* The outbound messages that follow the system message, if there is one.
AfterSystem(r) ==
  LET messages == OutboundMessages(r)
      first == IF Truthy(Get(req[r].body, "instructions")) THEN 2 ELSE 1
  IN SubSeq(messages, first, Len(messages))

\* The item passes the test of the input loop: it has a role and a content
\* or a text, none of them falsy.
Accepted(item) ==
  /\ ~GetThrows(item)
  /\ Truthy(Get(item, "role"))
  /\ Truthy(Or(Get(item, "content"), Get(item, "text")))

\* The message of an accepted item.
AcceptedMessage(item) ==
  Obj(<<Prop("role", Get(item, "role")),
        Prop("content",
             normalizeContent(Or(Get(item, "content"), Get(item, "text"))).value)>>)

\* C15: whenever transformRequest returns, its message list is the system
\* message, if the request has instructions, followed by the messages of the
\* input items that pass the test of the input loop, one message per such
\* item and in the order of the input sequence: none is dropped, duplicated
\* or reordered, and the system message is never behind an input message.
\* (Which items ought to pass the test is the matter of C17.)
C15_MessagesInInputOrder ==
  \A r \in Reqs :
     Forwarded(r) =>
        LET body == req[r].body
            accepted == SelectSeq(InputItems(body), Accepted)
            system == IF Truthy(Get(body, "instructions"))
                      THEN <<SystemOf(body)>> ELSE <<>>
        IN OutboundMessages(r) =
             system \o [ i \in 1..Len(accepted) |-> AcceptedMessage(accepted[i]) ]

\* A request with instructions and two different accepted items went upstream
\* with three messages.
C15_Witness ==
  \E r \in Reqs :
     /\ Forwarded(r)
     /\ Truthy(Get(req[r].body, "instructions"))
     /\ Len(InputItems(req[r].body)) = 2
     /\ Len(OutboundMessages(r)) = 3
     /\ OutboundMessages(r)[2] # OutboundMessages(r)[3]

\* C16: whenever transformRequest returns for a request whose instructions
\* field is set, the first outbound message is
\* {role: "system", content: instructions}.
C16_InstructionsSetIsSystemMessage ==
  \A r \in Reqs :
     (Forwarded(r) /\ Get(req[r].body, "instructions") # Undefined) =>
        /\ Len(OutboundMessages(r)) >= 1
        /\ OutboundMessages(r)[1] = SystemOf(req[r].body)

\* C16, amended: whenever transformRequest returns for a request whose
\* instructions field is set and not empty (not falsy), the first outbound
\* message is {role: "system", content: instructions}.
C16_NonEmptyInstructionsIsSystemMessage ==
  \A r \in Reqs :
     (Forwarded(r) /\ Truthy(Get(req[r].body, "instructions"))) =>
        /\ Len(OutboundMessages(r)) >= 1
        /\ OutboundMessages(r)[1] = SystemOf(req[r].body)

\* Non-empty instructions lead the messages of a request that also has an
\* accepted input item.
C16_Witness ==
  \E r \in Reqs :
     /\ Forwarded(r)
     /\ Get(req[r].body, "instructions") = Str("Be brief")
     /\ Len(OutboundMessages(r)) >= 2
     /\ OutboundMessages(r)[1] = SystemOf(req[r].body)

\* The item has the field.
Has(item, key) == item.t = "object" /\ Get(item, key) # Undefined

\* a ?? b
Coalesce(a, b) == IF a.t \in {"undefined", "null"} THEN b ELSE a

\* The item has a role and a content or a text field.
Qualifies(item) ==
  Has(item, "role") /\ (Has(item, "content") \/ Has(item, "text"))

\* {role: item.role, content: normalize(item.content ?? item.text)}
QualifyingMessage(item) ==
  Obj(<<Prop("role", Get(item, "role")),
        Prop("content",
             normalizeContent(Coalesce(Get(item, "content"), Get(item, "text"))).value)>>)

\* C17: whenever transformRequest returns, the messages behind the system
\* message are those of the input items that have a role and a content or a
\* text field, each {role: item.role, content: normalize(item.content ??
\* item.text)} with content taking precedence whenever it is present; only
\* the items that miss role or both content fields are skipped.
C17_ItemYieldsMessage ==
  \A r \in Reqs :
     Forwarded(r) =>
        LET qualifying == SelectSeq(InputItems(req[r].body), Qualifies)
        IN AfterSystem(r) =
             [ i \in 1..Len(qualifying) |-> QualifyingMessage(qualifying[i]) ]

\* C18: transformRequest is total: for every request body the plugin is
\* called with, it returns an outbound request, which goes upstream, and the
\* request is not answered with the 500 of the catch block of handle.
C18_TransformTotal ==
  \A r \in Reqs :
     ClaimedByV1(r) =>
        /\ ~transformRequest(req[r].body).threw
        /\ up[r].sent # Undefined
        /\ res[r].statusCode # 500

\* C19: whenever transformRequest returns for a request whose stream field
\* is unset, the outbound stream field is false and the request is forwarded
\* in buffered mode.
C19_StreamUnsetIsBuffered ==
  \A r \in Reqs :
     (Forwarded(r) /\ Get(req[r].body, "stream") = Undefined) =>
        /\ Get(up[r].sent, "stream") = Bool(FALSE)
        /\ up[r].mode = "buffered"

\* A request without a stream field went upstream in buffered mode.
C19_Witness ==
  \E r \in Reqs :
     /\ Forwarded(r)
     /\ Get(req[r].body, "stream") = Undefined
     /\ Get(up[r].sent, "stream") = Bool(FALSE)
     /\ up[r].mode = "buffered"
     /\ pc[r] = "awaitFetch"

\* The value transformRequest starts the field with.
DefaultOf(key) ==
  CASE key = "temperature" -> Num("0.7")
    [] key = "max_tokens" -> Num("-1")
    [] key = "parallel_tool_calls" -> Undefined

\* C20: whenever transformRequest returns, each of temperature, max_tokens
\* and parallel_tool_calls of the outbound request is the inbound value when
\* the inbound request has the field, falsy values such as 0 and false
\* included, and the default (0.7, -1, absent) when it has not.
C20_OverridesByPresence ==
  \A r \in Reqs :
     Forwarded(r) =>
        \A key \in {"temperature", "max_tokens", "parallel_tool_calls"} :
           Get(up[r].sent, key) =
             IF Get(req[r].body, key) # Undefined
             THEN Get(req[r].body, key)
             ELSE DefaultOf(key)

\* A temperature of 0 and parallel_tool_calls false went upstream as they
\* came, next to the default of max_tokens.
C20_Witness ==
  \E r \in Reqs :
     /\ Forwarded(r)
     /\ Get(req[r].body, "temperature") = Num("0")
     /\ Get(up[r].sent, "temperature") = Num("0")
     /\ Get(req[r].body, "parallel_tool_calls") = Bool(FALSE)
     /\ Get(up[r].sent, "parallel_tool_calls") = Bool(FALSE)
     /\ Get(req[r].body, "max_tokens") = Undefined
     /\ Get(up[r].sent, "max_tokens") = Num("-1")

\* ---------------------------------------------------------- normalizeContent
\* The body has one input item, which passes the test of the input loop with
\* its content, so that normalizeContent is called with that content.
NormalizeCalled(r) ==
  /\ ClaimedByV1(r)
  /\ Len(InputItems(req[r].body)) = 1
  /\ Accepted(InputItems(req[r].body)[1])
  /\ Truthy(Get(InputItems(req[r].body)[1], "content"))

\* The argument of that call, and what became of it in the outbound request.
NormalizeArg(r) == Get(InputItems(req[r].body)[1], "content")

NormalizeResult(r) ==
  Get(OutboundMessages(r)[Len(OutboundMessages(r))], "content")

\* Every element has a type and a text field.
AllTyped(blocks) ==
  \A i \in 1..Len(blocks) : Has(blocks[i], "type") /\ Has(blocks[i], "text")

AllStrings(blocks) == \A i \in 1..Len(blocks) : blocks[i].t = "string"

\* C21: for a content sequence (not empty) in which every element has a type
\* and a text field, normalizeContent returns the sequence of the same length
\* and order in which each element of type "input_text" has become
\* {type: "text", text: element.text} and every other element is unchanged.
C21_TypedBlocksMapped ==
  \A r \in Reqs :
     (/\ NormalizeCalled(r)
      /\ NormalizeArg(r).t = "array"
      /\ NormalizeArg(r).v # <<>>
      /\ AllTyped(NormalizeArg(r).v)) =>
        /\ Forwarded(r)
        /\ NormalizeResult(r) =
             Arr([ i \in 1..Len(NormalizeArg(r).v) |->
                     LET block == NormalizeArg(r).v[i]
                     IN IF Get(block, "type") = Str("input_text")
                        THEN Obj(<<Prop("type", Str("text")),
                                   Prop("text", Get(block, "text"))>>)
                        ELSE block ])

\* C22: normalizeContent never discards content: a sequence that is neither
\* a sequence of strings nor one of typed blocks comes back unchanged (a
\* value that is no sequence and no string comes back as its JSON text), no
\* content makes normalizeContent fail, and no content that is not empty
\* comes back empty.
C22_NeverDiscardsContent ==
  \A r \in Reqs :
     NormalizeCalled(r) =>
        LET arg == NormalizeArg(r)
        IN /\ Forwarded(r)
           /\ (arg.t = "array" /\ ~AllStrings(arg.v) /\ ~AllTyped(arg.v)) =>
                NormalizeResult(r) = arg
           /\ arg.t \notin {"array", "string"} =>
                NormalizeResult(r) = Str(Stringify(arg))
           /\ arg # Arr(<<>>) => NormalizeResult(r) \notin {Str(""), Arr(<<>>)}

Keys(object) == { object.v[i].k : i \in 1..Len(object.v) }

\* C23: the outbound request has the fields model, messages, temperature,
\* max_tokens and stream, tools exactly when the inbound tools is a sequence
\* that is not empty (then the same sequence), parallel_tool_calls exactly
\* when the inbound request has it, and no other field: no other key of the
\* inbound body goes upstream.
C23_OnlyEnumeratedFields ==
  \A r \in Reqs :
     Forwarded(r) =>
        LET tools == Get(req[r].body, "tools")
            hasTools == tools.t = "array" /\ tools.v # <<>>
        IN /\ Keys(up[r].sent) =
                {"model", "messages", "temperature", "max_tokens", "stream"}
                  \cup (IF hasTools THEN {"tools"} ELSE {})
                  \cup (IF Get(req[r].body, "parallel_tool_calls") # Undefined
                        THEN {"parallel_tool_calls"} ELSE {})
           /\ hasTools => Get(up[r].sent, "tools") = tools

\* ------------------------------------------------------------ configuration
\* The settings: the section and key of the resolved configuration, the
\* environment variable, and whether the value is a number.
Settings ==
  { [section |-> "", key |-> "port", var |-> "PROXY_PORT", number |-> TRUE],
    [section |-> "upstream", key |-> "baseURL",
     var |-> "OPENAI_UPSTREAM_BASE_URL", number |-> FALSE],
    [section |-> "upstream", key |-> "apiKeyHeader",
     var |-> "OPENAI_API_KEY_HEADER", number |-> FALSE],
    [section |-> "upstream", key |-> "apiKeyValue",
     var |-> "OPENAI_API_KEY", number |-> FALSE],
    [section |-> "upstream", key |-> "healthCheckPath",
     var |-> "OPENAI_HEALTH_CHECK_PATH", number |-> FALSE],
    [section |-> "logging", key |-> "level", var |-> "LOG_LEVEL", number |-> FALSE],
    [section |-> "logging", key |-> "format", var |-> "LOG_FORMAT", number |-> FALSE],
    [section |-> "timeouts", key |-> "request",
     var |-> "REQUEST_TIMEOUT", number |-> TRUE],
    [section |-> "timeouts", key |-> "healthCheck",
     var |-> "HEALTH_CHECK_TIMEOUT", number |-> TRUE] }

\* The value of the setting in a configuration object, undefined when the
\* object does not give it.
SettingIn(object, s) ==
  IF s.section = "" THEN Get(object, s.key)
  ELSE Get(Get(object, s.section), s.key)

\* The value the environment gives the setting: the number the variable
\* denotes, the base URL without its trailing slash, else the string.
SettingInEnv(env, s) ==
  IF s.number THEN Num(env[s.var].v)
  ELSE IF s.key = "baseURL" THEN stripSlash(env[s.var])
  ELSE env[s.var]

\* C24: every setting of the resolved configuration is the value of its
\* environment variable when the variable is set, else the value of
\* config.json when the file gives one, else the built-in default; a setting
\* whose variable is unset keeps its file or default value.
C24_EnvOverFileOverDefault ==
  phase # "import" =>
     \A s \in Settings :
        SettingIn(config.value, s) =
          IF config.env[s.var] # Undefined THEN SettingInEnv(config.env, s)
          ELSE IF SettingIn(loadFromFile(config.file), s) # Undefined
               THEN SettingIn(loadFromFile(config.file), s)
               ELSE SettingIn(defaultConfig, s)

\* ------------------------------------------------------------ registration
\* The plugin entries of the resolved configuration.
PluginEntries == Get(config.value, "plugins").v

\* The entry is enabled and its name is known to the plugin map.
Registrable(entry) == entry.enabled /\ entry.name \in pluginMap

\* C30: once setupRouter has run, the registry holds the plugins of the
\* entries that are enabled and known to the plugin map, in the order of the
\* configuration, and no other; a request that only plugins without such an
\* entry would match goes to the fallback proxy, and when no entry is
\* registered a health request is answered from the bare probe of the
\* upstream.
C30_RegistryIsEnabledKnown ==
  phase = "serving" =>
     LET entries == SelectSeq(PluginEntries, Registrable)
     IN /\ plugins = [ i \in 1..Len(entries) |-> entries[i].name ]
        /\ \A r \in Reqs :
              /\ (/\ Dispatched(r)
                  /\ \A i \in 1..Len(entries) :
                        ~canHandle(PluginDefs[entries[i].name], SeenReq(r))) =>
                    /\ disp[r].handler = 0
                    /\ pc[r] = "Unmatched"
                    /\ up[r].calls = <<"proxy">>
              /\ (HealthRequest(r) /\ entries = <<>>) =>
                    /\ health[r].checks = <<>>
                    /\ health[r].probe # "none"
                    /\ health[r].gets = 1

\* With a disabled entry of the v1-responses plugin and an enabled entry of
\* an unknown plugin the registry is empty, and a POST for the plugin's path
\* went to the fallback proxy.
C30_Witness ==
  /\ phase = "serving"
  /\ \E i, j \in 1..Len(PluginEntries) :
        /\ PluginEntries[i] = [name |-> "v1-responses", enabled |-> FALSE]
        /\ PluginEntries[j] = [name |-> "unknown", enabled |-> TRUE]
  /\ plugins = <<>>
  /\ \E r \in Reqs :
        /\ req[r].method = "POST"
        /\ req[r].url = <<"v1", "v1", "responses">>
        /\ pc[r] = "Unmatched"
        /\ up[r].calls = <<"proxy">>

\* ------------------------------------------------------------- disconnect
\* C25: once the caller has disconnected during a streaming relay, the
\* handler reads no further chunk from the upstream and attempts no further
\* write on the closed connection.
C25_DisconnectStopsRelay ==
  \A r \in Reqs : up[r].lateReads = 0 /\ res[r].lateWrites = 0

\* ------------------------------------------------- concurrent health checks
\* C26: with registered handlers, a health request starts one check per
\* handler, all at once, and the aggregate result (and with it the health
\* response) is produced only when no handler's check is still pending: a
\* first healthy report does not end the wait.
C26_AggregateWaitsForAll ==
  \A r \in Reqs :
    (pc[r] \in {"awaitHealth", "HealthDone"} /\ Len(plugins) > 0) =>
      /\ Len(health[r].checks) = Len(plugins)
      /\ (health[r].healthy # "none" \/ res[r].headersSent \/ HealthAnswered(r)) =>
           \A j \in 1..Len(health[r].checks) : health[r].checks[j] # "pending"

\* One handler has already reported healthy, another is still pending, and
\* no aggregate has been produced yet.
C26_Witness ==
  \E r \in Reqs :
    /\ pc[r] = "awaitHealth"
    /\ \E i, j \in 1..Len(health[r].checks) :
         health[r].checks[i] = "true" /\ health[r].checks[j] = "pending"
    /\ health[r].healthy = "none"
    /\ ~res[r].headersSent

AtDispatcher(r) ==
  \/ pc[r] = "Received" /\ UnderMount(req[r].url) /\ ~IsHealthz(req[r])
  \/ Dispatched(r)

\* C28: provided every upstream call resolves, rejects or ends its stream,
\* every request that reaches the dispatcher ends in one terminal state,
\* Handled or Unmatched, and stays in it; none stays in Received or Matching
\* for ever.
C28_EveryRequestTerminates ==
  /\ \A r \in Reqs : AtDispatcher(r) ~> Settled(r)
  /\ [][\A r \in Reqs : Settled(r) => pc'[r] = pc[r]]_vars

\* A request has ended Handled after the relay of a stream whose caller
\* had gone away.
C28_Witness ==
  \E r \in Reqs :
    /\ pc[r] = "Handled"
    /\ up[r].mode = "streaming"
    /\ Len(up[r].emitted) > 0
    /\ res[r].closed

\* ------------------------------------------------------ exclusive response
\* C29: no request is both answered by a handler and forwarded by the
\* fallback proxy: the proxy is not invoked for a request whose response a
\* handler has begun to write, and after handle resolved to true the
\* dispatcher does not call next().
C29_RespondingIsExclusive ==
  \A r \in Reqs :
    Dispatched(r) =>
      /\ ~(res[r].headersSent /\ disp[r].nextCalls > 0)
      /\ (disp[r].result = "true" => disp[r].nextCalls = 0)

====
